---- MODULE Spec2Model ----
(***************************************************************************)
(* A model of the image pipeline of dilanICIEOS/compressor:                *)
(*   - compressImage(file, maxMB, opts)       src/src/compressImage.js     *)
(*   - compressImage(file, maxSizeMB)         src/src/util.js              *)
(*   - cropImage(file, targetW, targetH, mb)  src/src/cropImage.js         *)
(*   - cropImage({file,targetW,targetH,maxMB}) src/unnamed/part_002        *)
(* Every invocation is an async function: one action per synchronous       *)
(* stretch between two awaits.  Sizes and budgets are in one unit (MiB),   *)
(* qualities in hundredths (0.95 is 95).                                   *)
(***************************************************************************)
EXTENDS Integers, FiniteSets, Sequences, TLC

VARIABLES inv, canvas

vars == <<inv, canvas>>

\* ---------------------------------------------------------------- bounds
MaxDim == 2
MaxSize == 2

Procs == {1, 2}

\* ------------------------------------------------------ program constants
InitialQuality == 95
DefaultMinQuality == 30
DefaultStep == 5
CropJpegQuality == 90

\* undefined (an argument left out): every comparison with it is false
Undef == -1

Types == {"image/jpeg", "image/png", "image/svg+xml", "text/plain"}
Budgets == {Undef} \cup (0 .. MaxSize)
MinQualities == {10, DefaultMinQuality, 60, InitialQuality}
Steps == {DefaultStep, 25, 40, 100}

\* ------------------------------------------------------------ JS helpers
\* file.type.startsWith('image/')
IsImage(type) == type \in {"image/jpeg", "image/png", "image/svg+xml"}

\* JS truthiness of a numeric argument: undefined and 0 are falsy
Truthy(x) == x # Undef /\ x # 0

\* size / 1048576 <= maxMB, size / 1024 / 1024 < maxMB, size / 1048576 > maxMB
LeqMB(size, mb) == mb # Undef /\ size <= mb
LtMB(size, mb) == mb # Undef /\ size < mb
GtMB(size, mb) == mb # Undef /\ size > mb

\* /png|gif/i.test(file.type) ? "image/webp" : "image/jpeg"
LossyType(type) == IF type = "image/png" THEN "image/webp" ELSE "image/jpeg"

\* mimeType.split("/")[1].replace("jpeg", "jpg")
ExtOf(type) ==
  CASE type = "image/jpeg" -> "jpg"
    [] type = "image/png" -> "png"
    [] type = "image/webp" -> "webp"
    [] type = "image/svg+xml" -> "svg+xml"
    [] OTHER -> "plain"

\* originalName.replace(/\.[^.]+$/, "." + ext): the name is modelled by its
\* extension; a name without one is left as it is
RenameWithExtension(name, type) == IF name = "" THEN "" ELSE ExtOf(type)

\* ------------------------------------------------------------------ data
NoData == [img |-> 0, stage |-> "none", type |-> "", q |-> 0]
SrcData(p) == [img |-> p, stage |-> "src", type |-> "", q |-> 0]
NoFile == [data |-> NoData, type |-> "", name |-> "", size |-> 0,
           w |-> 0, h |-> 0, lastModified |-> ""]
\* canvas.toBlob hands null to its callback when it cannot encode
NullBlob == [data |-> NoData, type |-> "null", size |-> 0, w |-> 0, h |-> 0]

Rat(n, d) == [n |-> n, d |-> d]

\* the extensions a file of a type is named with
NameOf(type) ==
  CASE type = "image/jpeg" -> {"jpeg", "jpg"}
    [] type = "image/png" -> {"png"}
    [] type = "image/svg+xml" -> {"svg"}
    [] OTHER -> {"txt"}

Files(p) ==
  { f \in [data : {SrcData(p)}, type : Types,
           name : {"jpeg", "jpg", "png", "svg", "txt"}, size : 1 .. MaxSize,
           w : 1 .. MaxDim, h : 1 .. MaxDim, lastModified : {"orig"}] :
      f.name \in NameOf(f.type) }

\* ------------------------------------------------------ the environment
\* How the platform's codecs answer for one image: mode "any" lets every
\* load and every encode answer anything (a size, or a failure); mode "det"
\* is one deterministic codec: the image decodes or not, the cover-crop
\* encode has size crop, the first compressor encode size first, and a lossy
\* encode is small at or below quality cut and MaxSize above (0: failure).
AnyEnv == [mode |-> "any", decodable |-> TRUE, crop |-> 0, first |-> 0, cut |-> 0]
DetEnvs == [mode : {"det"}, decodable : BOOLEAN, crop : 0 .. MaxSize,
            first : 0 .. MaxSize, cut : {0, DefaultMinQuality, 60}]

\* i.onload / i.onerror of an Image whose src is the source file
LoadOutcomes(e) == IF e.mode = "any" THEN BOOLEAN ELSE {e.decodable}

\* reader.onload / reader.onerror, and loading a data URL or a canvas output
ReadOutcomes(e, d) ==
  IF e.mode = "any" THEN BOOLEAN
  ELSE IF d.stage = "src" THEN {e.decodable} ELSE {TRUE}

\* the size of the blob canvas.toBlob produces (0: null); a canvas without
\* area encodes to null
EncodeOutcomes(e, req) ==
  IF req.w = 0 \/ req.h = 0 THEN {0}
  ELSE IF e.mode = "any" THEN 0 .. MaxSize
  ELSE IF req.data.stage = "cropped" THEN {e.crop}
  ELSE IF req.q = InitialQuality THEN {e.first}
  ELSE IF req.q <= e.cut THEN {1} ELSE {MaxSize}

\* ---------------------------------------------------------- invocations
NoReq == [data |-> NoData, type |-> "", q |-> 0, w |-> 0, h |-> 0]

\* the state of one call: its arguments, its locals, where it is suspended;
\* minCand records the smallest size among the blobs the compressor's search
\* has been handed so far (0: none yet)
NewInv(o, f, tw, th, mb, mq, st, e) ==
  [pc |-> "start", op |-> o, file |-> f, targetW |-> tw, targetH |-> th,
   maxMB |-> mb, minQuality |-> mq, step |-> st, env |-> e,
   width |-> 0, height |-> 0,
   newW |-> 0, newH |-> 0, resW |-> Rat(0, 1), resH |-> Rat(0, 1),
   cropX |-> 0, cropY |-> 0, outW |-> 0, outH |-> 0,
   cur |-> NoFile, quality |-> 0, blob |-> NullBlob, req |-> NoReq,
   result |-> NoFile, error |-> "",
   nProbe |-> 0, nDecode |-> 0, nEncode |-> 0, nCrop |-> 0, nCompress |-> 0,
   nFail |-> 0, urls |-> 0, minCand |-> 0]

Idle == [NewInv("none", NoFile, 0, 0, Undef, DefaultMinQuality, DefaultStep, AnyEnv)
           EXCEPT !.pc = "idle"]

\* a throw or a rejected await: nothing catches it, the call rejects
Failed(r, why) ==
  [r EXCEPT !.pc = "error", !.error = why, !.result = NoFile]

\* the platform has answered an await of r: bad when it reported a failure
\* (onerror, a null blob, a throw of the library)
Answered(r, bad) == [r EXCEPT !.nFail = @ + (IF bad THEN 1 ELSE 0)]

\* return f
Returned(r, f) == [r EXCEPT !.pc = "done", !.result = f]

\* document.createElement("canvas"): every call gets canvases of its own
CanvasOfModule(p, k) == <<1, k>>
CanvasOf(p, k) == <<p, k>>
Canvases == Procs \X {"out", "comp"}
Blank == [data |-> NoData, w |-> 0, h |-> 0]

\* the codec behaviour that applies to a bitmap: that of the image it shows
EnvOf(d) == IF d.img \in Procs THEN inv[d.img].env ELSE AnyEnv

\* canvas.toBlob(cb, type, quality) reads the canvas when it is called
Snapshot(c, type, q) == [data |-> c.data, type |-> type, q |-> q, w |-> c.w, h |-> c.h]

\* the bytes an encode of bitmap d produces
Reencoded(d, type, q) ==
  [img |-> d.img,
   stage |-> CASE d.stage = "src" -> "src+"
               [] d.stage = "cropped" -> "crop"
               [] d.stage = "crop" -> "crop+"
               [] OTHER -> "other+",
   type |-> type, q |-> q]

BlobOf(req, s) ==
  IF s = 0 THEN NullBlob
  ELSE [data |-> Reencoded(req.data, req.type, req.q), type |-> req.type,
        size |-> s, w |-> req.w, h |-> req.h]

Max(a, b) == IF a >= b THEN a ELSE b

\* ------------------------------------------- size-budget compressor
\* while (blob.size / 1048576 > maxMB && quality > minQuality)
LoopContinuesAtFloor(blob, maxMB, quality, minQuality) ==
  GtMB(blob.size, maxMB) /\ quality >= minQuality
LoopContinues(blob, maxMB, quality, minQuality) ==
  GtMB(blob.size, maxMB) /\ quality > minQuality

\* quality = Math.max(quality - step, minQuality)
NextQualityUnclamped(quality, step, minQuality) == quality - step
NextQuality(quality, step, minQuality) == Max(quality - step, minQuality)

\* const finalBlob = blob.size < file.size ? blob : file
FinalBlobAlwaysBlob(blob, f) == blob
FinalBlobAlwaysFile(blob, f) == f
FinalBlob(blob, f) == IF blob.size < f.size THEN blob ELSE f

\* new File([finalBlob], _renameWithExtension(file.name, finalBlob.type),
\*          { type: finalBlob.type, lastModified: Date.now() })
FinalFile(blob, f) ==
  LET fb == FinalBlob(blob, f) IN
  [data |-> fb.data, type |-> fb.type, name |-> RenameWithExtension(f.name, fb.type),
   size |-> fb.size, w |-> fb.w, h |-> fb.h, lastModified |-> "now"]

\* if (file.size / 1048576 <= maxMB) return file
AlreadySmallStrict(f, maxMB) == LtMB(f.size, maxMB)
AlreadySmall(f, maxMB) == LeqMB(f.size, maxMB)

\* compressImage(f, r.maxMB, opts) up to its first await: the argument
\* checks, the early return, and the start of the FileReader
CompressCall(r, f) ==
  LET r1 == [r EXCEPT !.cur = f, !.nCompress = @ + 1] IN
  IF ~IsImage(f.type) THEN Failed(r1, "Only image files are supported")
  ELSE IF AlreadySmall(f, r.maxMB) THEN Returned(r1, f)
  ELSE [r1 EXCEPT !.pc = "c_read"]

CompressStart(p) ==
  /\ inv[p].pc = "start" /\ inv[p].op = "compressImage"
  /\ inv' = [inv EXCEPT ![p] = CompressCall(inv[p], inv[p].file)]
  /\ UNCHANGED canvas

\* await _fileToDataURL(file)
CompressRead(p) ==
  /\ inv[p].pc = "c_read"
  /\ \E ok \in ReadOutcomes(EnvOf(inv[p].cur.data), inv[p].cur.data) :
       inv' = [inv EXCEPT ![p] =
                 IF ok THEN [Answered(inv[p], ~ok) EXCEPT !.pc = "c_decode"]
                 ELSE Failed(Answered(inv[p], ~ok), "FileReader error")]
  /\ UNCHANGED canvas

\* await _dataURLToImage(dataUrl); the canvas is sized and drawn, quality
\* starts at 0.95 and the first encode, at the file's own type, is asked for
CompressDecoded(p) ==
  /\ inv[p].pc = "c_decode"
  /\ \E ok \in ReadOutcomes(EnvOf(inv[p].cur.data), inv[p].cur.data) :
       IF ok
       THEN LET r == Answered(inv[p], ~ok)
                c == CanvasOf(p, "comp")
                drawn == [data |-> r.cur.data, w |-> r.cur.w, h |-> r.cur.h] IN
            /\ canvas' = [canvas EXCEPT ![c] = drawn]
            /\ inv' = [inv EXCEPT ![p] =
                 [r EXCEPT !.pc = "c_encode", !.nDecode = @ + 1,
                           !.quality = InitialQuality, !.nEncode = @ + 1,
                           !.req = Snapshot(drawn, r.cur.type, InitialQuality)]]
       ELSE /\ inv' = [inv EXCEPT ![p] =
                        Failed(Answered(inv[p], ~ok), "Image load error")]
            /\ UNCHANGED canvas

\* an encode has answered: the loop test, then either the next encode at the
\* lossy type or the final selection
CompressEncoded(p) ==
  /\ inv[p].pc = "c_encode"
  /\ \E s \in EncodeOutcomes(EnvOf(inv[p].req.data), inv[p].req) :
       LET r == Answered(inv[p], s = 0)
           blob == BlobOf(r.req, s)
           r1 == [r EXCEPT !.blob = blob, !.req = NoReq,
                           !.minCand = IF s = 0 THEN @
                                       ELSE IF @ = 0 \/ s < @ THEN s ELSE @] IN
       inv' = [inv EXCEPT ![p] =
         IF s = 0 THEN Failed(r1, "TypeError: blob is null")
         ELSE IF LoopContinues(blob, r.maxMB, r.quality, r.minQuality)
         THEN LET q == NextQuality(r.quality, r.step, r.minQuality) IN
              [r1 EXCEPT !.quality = q, !.nEncode = @ + 1,
                         !.req = Snapshot(canvas[CanvasOf(p, "comp")],
                                          LossyType(r.cur.type), q)]
         ELSE Returned(r1, FinalFile(blob, r.cur))]
  /\ UNCHANGED canvas

\* ------------------------------------------------- dimension prober
\* getImageDimensions(file) up to its promise: the type check, then an
\* object URL is created for the Image to load (and is not revoked)
ProbeCall(r, pcNext) ==
  IF ~IsImage(r.file.type) THEN Failed(r, "Only image files are supported")
  ELSE [r EXCEPT !.pc = pcNext, !.nProbe = @ + 1, !.urls = @ + 1]

\* ------------------------------------------------ cover-crop geometry
\* a product o * scale, exact, as a fraction
Mul(o, scale) == Rat(o * scale.n, scale.d)
RMax(a, b) == IF a.n * b.d >= b.n * a.d THEN a ELSE b

\* part_002: targetW ? targetW / origW : 0;  cropImage.js: targetW / origW
ScaleAxis(op, t, o) ==
  IF op = "cropImage" /\ ~Truthy(t) THEN Rat(0, 1) ELSE Rat(t, o)

\* Math.max(scaleX, scaleY)
ScaleMin(op, tW, tH, oW, oH) ==
  LET a == ScaleAxis(op, tW, oW)
      b == ScaleAxis(op, tH, oH) IN
  IF a.n * b.d >= b.n * a.d THEN b ELSE a
Scale(op, tW, tH, oW, oH) == RMax(ScaleAxis(op, tW, oW), ScaleAxis(op, tH, oH))

\* The double product o * (t / o) of two roundings can come out a little
\* above the integer it stands for, and Math.ceil then gives the next one:
\* up is 1 for that outcome and 0 otherwise.
RoundUps(prod) == IF prod.n # 0 /\ prod.n % prod.d = 0 THEN {0, 1} ELSE {0}

\* Math.ceil(origW * scale)
NewDim(prod, up) ==
  IF prod.n % prod.d = 0 THEN prod.n \div prod.d + up ELSE prod.n \div prod.d + 1

\* if (!targetW || targetW === 0) targetW = scale * origW  (part_002 only)
ResolveTarget(op, t, prod) ==
  IF op = "cropImage" /\ ~Truthy(t) THEN prod ELSE Rat(t, 1)

\* Math.floor((newW - targetW) / 2)
CropOffset(new, t) == (new * t.d - t.n) \div (2 * t.d)

\* a canvas dimension is an unsigned long: the fraction of a number is dropped
ToCanvasDim(t) == t.n \div t.d

\* outCanvas.width = targetW; outCanvas.height = targetH
OutSizeOfResized(newW, newH, targetW, targetH) == [w |-> newW, h |-> newH]
OutSize(newW, newH, targetW, targetH) ==
  [w |-> ToCanvasDim(targetW), h |-> ToCanvasDim(targetH)]

\* if (!mimeType || mimeType === 'image/svg+xml') mimeType = 'image/png'
CropMimeKept(type) == type
CropMime(type) == IF type = "" \/ type = "image/svg+xml" THEN "image/png" ELSE type

\* mimeType === 'image/jpeg' ? 0.9 : undefined
CropQuality(mime) == IF mime = "image/jpeg" THEN CropJpegQuality ELSE Undef

\* extension === 'jpeg' ? 'jpg' : extension, after mimeType.split('/')[1] || 'png'
CropExt(mime) == IF mime = "image/jpeg" THEN "jpg" ELSE ExtOf(mime)

\* the bitmap the output canvas holds after the two drawImage calls
Cropped(d) == [img |-> d.img, stage |-> "cropped", type |-> "", q |-> 0]

\* ------------------------------------------------------- orchestrator
\* if (!targetH && !targetW) return file
NoTargetNever(tW, tH) == FALSE
NoTarget(tW, tH) == ~Truthy(tH) /\ ~Truthy(tW)

\* if (width <= targetW || height <= targetH)
AlreadyFits(w, h, tW, tH) == w <= tW \/ h <= tH

\* if (file.size / 1024 / 1024 < maxMB) return file
UnderBudget(f, maxMB) == LtMB(f.size, maxMB)

\* cropImage({file, targetW, targetH, maxMB}) up to await getImageDimensions
CropStart(p) ==
  /\ inv[p].pc = "start" /\ inv[p].op = "cropImage"
  /\ LET r == inv[p] IN
     inv' = [inv EXCEPT ![p] =
       IF ~IsImage(r.file.type) THEN Failed(r, "Only image files are supported")
       ELSE IF NoTarget(r.targetW, r.targetH) THEN Returned(r, r.file)
       ELSE ProbeCall(r, "probe")]
  /\ UNCHANGED canvas

\* the probe has answered: the already-fits branch (return the file, or
\* hand it to compressImage), or the Image of the crop starts loading
CropProbed(p) ==
  /\ inv[p].pc = "probe"
  /\ \E ok \in LoadOutcomes(inv[p].env) :
       LET r == Answered(inv[p], ~ok)
           r1 == [r EXCEPT !.width = r.file.w, !.height = r.file.h] IN
       inv' = [inv EXCEPT ![p] =
         IF ~ok THEN Failed(r, "Image load error")
         ELSE IF AlreadyFits(r1.width, r1.height, r.targetW, r.targetH)
         THEN IF UnderBudget(r.file, r.maxMB) THEN Returned(r1, r.file)
              ELSE CompressCall(r1, r.file)
         ELSE [r1 EXCEPT !.pc = "load", !.urls = @ + 1]]
  /\ UNCHANGED canvas

\* cropImage(file, targetW, targetH, maxMbLimit) of cropImage.js: no probe
SrcCropStart(p) ==
  /\ inv[p].pc = "start" /\ inv[p].op = "cropImageSrc"
  /\ LET r == inv[p] IN
     inv' = [inv EXCEPT ![p] =
       IF ~IsImage(r.file.type) THEN Failed(r, "Only image files are supported")
       ELSE [r EXCEPT !.pc = "load", !.urls = @ + 1]]
  /\ UNCHANGED canvas

\* i.onload / i.onerror: the URL is revoked; on load the geometry is
\* computed, both canvases are drawn and the encode is asked for
CropLoaded(p) ==
  /\ inv[p].pc = "load"
  /\ \E ok \in LoadOutcomes(inv[p].env) :
       LET r == [Answered(inv[p], ~ok) EXCEPT !.urls = @ - 1]
           origW == r.file.w
           origH == r.file.h
           scale == Scale(r.op, r.targetW, r.targetH, origW, origH)
           prodW == Mul(origW, scale)
           prodH == Mul(origH, scale) IN
       IF ~ok
       THEN /\ inv' = [inv EXCEPT ![p] = Failed(r, "Image load error")]
            /\ UNCHANGED canvas
       ELSE \E upW \in RoundUps(prodW), upH \in RoundUps(prodH) :
            LET newW == NewDim(prodW, upW)
                newH == NewDim(prodH, upH)
                targetW == ResolveTarget(r.op, r.targetW, prodW)
                targetH == ResolveTarget(r.op, r.targetH, prodH)
                size == OutSize(newW, newH, targetW, targetH)
                out == [data |-> Cropped(r.file.data), w |-> size.w, h |-> size.h]
                mimeType == CropMime(r.file.type) IN
            /\ canvas' = [canvas EXCEPT ![CanvasOf(p, "out")] = out]
            /\ inv' = [inv EXCEPT ![p] =
                 [r EXCEPT !.pc = "encode", !.nDecode = @ + 1, !.nCrop = @ + 1,
                           !.newW = newW, !.newH = newH,
                           !.resW = targetW, !.resH = targetH,
                           !.cropX = CropOffset(newW, targetW),
                           !.cropY = CropOffset(newH, targetH),
                           !.outW = out.w, !.outH = out.h,
                           !.nEncode = @ + 1,
                           !.req = Snapshot(out, mimeType, CropQuality(mimeType))]]

\* canvasToBlob rejects on null
BlobFailsNever(s) == FALSE
BlobFails(s) == s = 0

\* if (maxMB) return await compressImage(croppedFile, maxMB)
CompressAfterCropAlways(maxMB) == TRUE
CompressAfterCrop(maxMB) == Truthy(maxMB)

\* the crop's encode has answered: the cropped File, then the compressor
\* when a budget is given
CropEncoded(p) ==
  /\ inv[p].pc = "encode"
  /\ \E s \in EncodeOutcomes(EnvOf(inv[p].req.data), inv[p].req) :
       LET r == Answered(inv[p], s = 0)
           croppedFile == [data |-> Reencoded(r.req.data, r.req.type, r.req.q),
                           type |-> r.req.type, name |-> CropExt(r.req.type),
                           size |-> s, w |-> r.req.w, h |-> r.req.h,
                           lastModified |-> "now"]
           r1 == [r EXCEPT !.req = NoReq] IN
       inv' = [inv EXCEPT ![p] =
         IF BlobFails(s) THEN Failed(r1, "Canvas toBlob failed")
         ELSE IF CompressAfterCrop(r.maxMB) THEN CompressCall(r1, croppedFile)
         ELSE Returned(r1, croppedFile)]
  /\ UNCHANGED canvas

\* ------------------------------------------- util.js compressImage
UtilStart(p) ==
  /\ inv[p].pc = "start" /\ inv[p].op = "utilCompressImage"
  /\ inv' = [inv EXCEPT ![p] = ProbeCall(inv[p], "u_probe")]
  /\ UNCHANGED canvas

\* the dimensions are logged, then: if (file.size / 1024 / 1024 <= maxSizeMB)
\* return file; else the browser-image-compression library is called
UtilProbed(p) ==
  /\ inv[p].pc = "u_probe"
  /\ \E ok \in LoadOutcomes(inv[p].env) :
       LET r == Answered(inv[p], ~ok)
           r1 == [r EXCEPT !.width = r.file.w, !.height = r.file.h] IN
       inv' = [inv EXCEPT ![p] =
         IF ~ok THEN Failed(r, "Image load error")
         ELSE IF LeqMB(r.file.size, r.maxMB) THEN Returned(r1, r.file)
         ELSE [r1 EXCEPT !.pc = "u_lib", !.nCompress = @ + 1, !.nEncode = @ + 1]]
  /\ UNCHANGED canvas

\* what the library answers: a file of any size, or it throws (0)
LibOutcomes(e) == IF e.mode = "any" THEN 0 .. MaxSize ELSE {e.first}

\* await imageCompression(file, options); catch (err) { throw err }; the
\* compressed file's dimensions are probed for the log
UtilCompressed(p) ==
  /\ inv[p].pc = "u_lib"
  /\ \E s \in LibOutcomes(inv[p].env) :
       LET r == Answered(inv[p], s = 0)
           compressed == [r.file EXCEPT !.data = Reencoded(r.file.data, r.file.type, Undef),
                                        !.size = s, !.lastModified = "now"] IN
       inv' = [inv EXCEPT ![p] =
         IF s = 0 THEN Failed(r, "imageCompression error")
         ELSE [r EXCEPT !.cur = compressed, !.pc = "u_probe2",
                        !.nProbe = @ + 1, !.urls = @ + 1]]
  /\ UNCHANGED canvas

UtilProbed2(p) ==
  /\ inv[p].pc = "u_probe2"
  /\ \E ok \in ReadOutcomes(inv[p].env, inv[p].cur.data) :
       inv' = [inv EXCEPT ![p] =
         IF ok THEN Returned(Answered(inv[p], ~ok), inv[p].cur)
         ELSE Failed(Answered(inv[p], ~ok), "Image load error")]
  /\ UNCHANGED canvas

\* ------------------------------------------------------ specification
SmallFiles(p) == { f \in Files(p) : f.w = 1 /\ f.h = 1 }

\* the calls a caller can make on image p, with codecs behaving as in envs
Calls(p, envs) ==
  { NewInv(o, f, tw, th, mb, DefaultMinQuality, DefaultStep, e) :
      o \in {"cropImage", "cropImageSrc"}, f \in Files(p),
      tw \in 0 .. MaxDim, th \in 0 .. MaxDim, mb \in Budgets, e \in envs }
  \cup
  { NewInv("compressImage", f, 0, 0, mb, mq, st, e) :
      f \in SmallFiles(p), mb \in Budgets, mq \in MinQualities, st \in Steps,
      e \in envs }
  \cup
  { NewInv("utilCompressImage", f, 0, 0, mb, DefaultMinQuality, DefaultStep, e) :
      f \in SmallFiles(p), mb \in Budgets, e \in envs }

\* one call, on image 1, against codecs that may answer anything
Init ==
  /\ \E c \in Calls(1, {AnyEnv}) : inv = [p \in Procs |-> IF p = 1 THEN c ELSE Idle]
  /\ canvas = [c \in Canvases |-> Blank]

Next ==
  \E p \in Procs :
    \/ CropStart(p)
    \/ CropProbed(p)
    \/ SrcCropStart(p)
    \/ CropLoaded(p)
    \/ CropEncoded(p)
    \/ CompressStart(p)
    \/ CompressRead(p)
    \/ CompressDecoded(p)
    \/ CompressEncoded(p)
    \/ UtilStart(p)
    \/ UtilProbed(p)
    \/ UtilCompressed(p)
    \/ UtilProbed2(p)

Spec == Init /\ [][Next]_vars

\* Two calls of cropImage of part_002 in flight at once, on two images, each
\* image with a deterministic codec behaviour of its own.
ConcEnvs ==
  [mode : {"det"}, decodable : BOOLEAN, crop : {0, MaxSize}, first : {MaxSize},
   cut : {0, 60}]

ConcFile(p) ==
  [data |-> SrcData(p), type |-> "image/png", name |-> "png", size |-> MaxSize,
   w |-> MaxDim, h |-> MaxDim, lastModified |-> "orig"]

ConcCalls(p) ==
  { NewInv("cropImage", ConcFile(p), t, t, mb, DefaultMinQuality, DefaultStep, e) :
      t \in {0, 1, MaxDim}, mb \in {Undef, 1}, e \in ConcEnvs }

InitConc ==
  /\ \E c1 \in ConcCalls(1), c2 \in ConcCalls(2) : inv = <<c1, c2>>
  /\ canvas = [c \in Canvases |-> Blank]

NextConc ==
  \E p \in Procs :
    \/ CropStart(p)
    \/ CropProbed(p)
    \/ CropLoaded(p)
    \/ CropEncoded(p)
    \/ CompressRead(p)
    \/ CompressDecoded(p)
    \/ CompressEncoded(p)

SpecConc == InitConc /\ [][NextConc]_vars

\* ------------------------------------------------------------- claims
\* the calls that run compressImage of compressImage.js
CompressorOps == {"compressImage", "cropImage", "cropImageSrc"}

CeilDiv(a, b) == (a + b - 1) \div b
Min(a, b) == IF a <= b THEN a ELSE b

\* C1: whatever the encoder answers, the file compressImage returns is never
\* larger than the file it was given.
C1_NeverEnlarges ==
  \A p \in Procs :
    (inv[p].op \in CompressorOps /\ inv[p].nCompress = 1 /\ inv[p].pc = "done")
      => inv[p].result.size <= inv[p].cur.size

\* the encoder's last answer was larger than the input, and the call returned
C1_Witness ==
  \E p \in Procs :
    /\ inv[p].op = "compressImage" /\ inv[p].pc = "done"
    /\ inv[p].nEncode >= 2 /\ inv[p].blob.size > inv[p].cur.size

C3_CropExactness ==
  \A p \in Procs :
    (/\ inv[p].nCrop = 1
     /\ inv[p].targetW >= 1 /\ inv[p].targetH >= 1
     /\ (inv[p].file.w > inv[p].targetW \/ inv[p].file.h > inv[p].targetH))
      => /\ inv[p].outW = inv[p].targetW /\ inv[p].outH = inv[p].targetH
         /\ canvas[CanvasOf(p, "out")].w = inv[p].targetW
         /\ canvas[CanvasOf(p, "out")].h = inv[p].targetH
         /\ inv[p].pc = "done" =>
              inv[p].result.w = inv[p].targetW /\ inv[p].result.h = inv[p].targetH

\* a source wider than the target but lower than it has been cropped
C3_Witness ==
  \E p \in Procs :
    /\ inv[p].pc = "done" /\ inv[p].nCrop = 1
    /\ inv[p].targetW >= 1 /\ inv[p].file.w > inv[p].targetW
    /\ inv[p].file.h < inv[p].targetH
    /\ inv[p].result.w = inv[p].targetW

\* C4: in every crop the resized dimensions cover the resolved targets and
\* both crop offsets are >= 0.
C4_CoverInvariant ==
  \A p \in Procs :
    inv[p].nCrop = 1
      => /\ inv[p].newW * inv[p].resW.d >= inv[p].resW.n
         /\ inv[p].newH * inv[p].resH.d >= inv[p].resH.n
         /\ inv[p].cropX >= 0 /\ inv[p].cropY >= 0

\* a crop whose width target was left out and resolved to a fraction, the
\* height being resized beyond its target by the rounding of the product
C4_Witness ==
  \E p \in Procs :
    /\ inv[p].nCrop = 1 /\ inv[p].op = "cropImage"
    /\ ~Truthy(inv[p].targetW) /\ inv[p].resW.n % inv[p].resW.d # 0
    /\ inv[p].newH > inv[p].targetH

\* C5: in cropImage of part_002, a source that already fits (width <= targetW
\* or height <= targetH), with maxMB left out or the size below it, comes
\* back unchanged with no crop and no encode; compressImage gets the source
\* only when maxMB is given and the size is not below it.
C5_ShortCircuit ==
  \A p \in Procs :
    (/\ inv[p].op = "cropImage" /\ IsImage(inv[p].file.type)
     /\ ~NoTarget(inv[p].targetW, inv[p].targetH)
     /\ AlreadyFits(inv[p].file.w, inv[p].file.h, inv[p].targetW, inv[p].targetH))
      => /\ (inv[p].pc = "done"
               /\ (inv[p].maxMB = Undef \/ LtMB(inv[p].file.size, inv[p].maxMB)))
              => /\ inv[p].result = inv[p].file
                 /\ inv[p].nCrop = 0 /\ inv[p].nEncode = 0
         /\ inv[p].nCompress >= 1
              => inv[p].maxMB # Undef /\ ~LtMB(inv[p].file.size, inv[p].maxMB)

\* C6: with neither targetW nor targetH given, cropImage of part_002 returns
\* the source image at once: no probe, decode, crop, encode or compression,
\* whatever maxMB is.
C6_NoTargetNoop ==
  \A p \in Procs :
    (/\ inv[p].op = "cropImage" /\ IsImage(inv[p].file.type)
     /\ ~Truthy(inv[p].targetW) /\ ~Truthy(inv[p].targetH))
      => /\ inv[p].pc \in {"start", "done"}
         /\ inv[p].pc = "done" => inv[p].result = inv[p].file
         /\ inv[p].nProbe = 0 /\ inv[p].nDecode = 0 /\ inv[p].nCrop = 0
         /\ inv[p].nEncode = 0 /\ inv[p].nCompress = 0 /\ inv[p].urls = 0

\* no target, a file over a given budget: returned all the same
C6_Witness ==
  \E p \in Procs :
    /\ inv[p].op = "cropImage" /\ inv[p].pc = "done"
    /\ ~Truthy(inv[p].targetW) /\ ~Truthy(inv[p].targetH)
    /\ GtMB(inv[p].file.size, inv[p].maxMB) /\ inv[p].result = inv[p].file

\* C7: the search asks for at most ceil((0.95 - minQuality) / step) + 1
\* encodes, the first one included, and then stops.
C7_EncodeBound ==
  \A p \in Procs :
    inv[p].op \in CompressorOps
      => /\ inv[p].nEncode - inv[p].nCrop
              <= CeilDiv(InitialQuality - inv[p].minQuality, inv[p].step) + 1
         /\ inv[p].quality \in {0} \cup (inv[p].minQuality .. InitialQuality)

\* a search that used every encode the bound allows, the last step clamped
C7_Witness ==
  \E p \in Procs :
    /\ inv[p].op = "compressImage" /\ inv[p].pc = "done"
    /\ (InitialQuality - inv[p].minQuality) % inv[p].step # 0
    /\ inv[p].nEncode >= 3
    /\ inv[p].nEncode = CeilDiv(InitialQuality - inv[p].minQuality, inv[p].step) + 1

C9_FailureAborts ==
  \A p \in Procs :
    /\ inv[p].nFail >= 1
         => inv[p].pc = "error" /\ inv[p].result = NoFile /\ inv[p].nFail = 1
    /\ (~IsImage(inv[p].file.type) /\ inv[p].pc \notin {"idle", "start"})
         => /\ inv[p].pc = "error" /\ inv[p].result = NoFile
            /\ inv[p].nProbe = 0 /\ inv[p].nDecode = 0 /\ inv[p].nEncode = 0
    /\ inv[p].pc = "done" => inv[p].result # NoFile

\* the crop had produced its file when the compressor's encode failed: the
\* call rejected and the cropped file was not returned
C9_Witness ==
  \E p \in Procs :
    /\ inv[p].op = "cropImage" /\ inv[p].pc = "error"
    /\ inv[p].nCrop = 1 /\ inv[p].nCompress = 1 /\ inv[p].nEncode >= 2
    /\ inv[p].nFail = 1 /\ inv[p].result = NoFile

\* What a call gives when it runs alone against a deterministic codec, as a
\* function of its arguments: <<"done", file>> or <<"error", NoFile>>.
TheSize(e, req) == CHOOSE s \in EncodeOutcomes(e, req) : TRUE

RECURSIVE SearchAlone(_, _, _, _)
SearchAlone(c, f, q, type) ==
  LET req == [data |-> f.data, type |-> type, q |-> q, w |-> f.w, h |-> f.h]
      s == TheSize(c.env, req)
      blob == BlobOf(req, s) IN
  IF s = 0 THEN <<"error", NoFile>>
  ELSE IF LoopContinues(blob, c.maxMB, q, c.minQuality)
  THEN SearchAlone(c, f, NextQuality(q, c.step, c.minQuality), LossyType(f.type))
  ELSE <<"done", FinalFile(blob, f)>>

CompressAlone(c, f) ==
  IF ~IsImage(f.type) THEN <<"error", NoFile>>
  ELSE IF AlreadySmall(f, c.maxMB) THEN <<"done", f>>
  ELSE IF FALSE \notin ReadOutcomes(c.env, f.data)
  THEN SearchAlone(c, f, InitialQuality, f.type)
  ELSE <<"error", NoFile>>

CropAlone(c) ==
  LET f == c.file
      scale == Scale(c.op, c.targetW, c.targetH, f.w, f.h)
      prodW == Mul(f.w, scale)
      prodH == Mul(f.h, scale)
      size == OutSize(NewDim(prodW, 0), NewDim(prodH, 0),
                      ResolveTarget(c.op, c.targetW, prodW),
                      ResolveTarget(c.op, c.targetH, prodH))
      mimeType == CropMime(f.type)
      req == [data |-> Cropped(f.data), type |-> mimeType,
              q |-> CropQuality(mimeType), w |-> size.w, h |-> size.h]
      s == TheSize(c.env, req)
      croppedFile == [data |-> Reencoded(req.data, req.type, req.q),
                      type |-> mimeType, name |-> CropExt(mimeType), size |-> s,
                      w |-> size.w, h |-> size.h, lastModified |-> "now"] IN
  IF ~IsImage(f.type) THEN <<"error", NoFile>>
  ELSE IF NoTarget(c.targetW, c.targetH) THEN <<"done", f>>
  ELSE IF ~c.env.decodable THEN <<"error", NoFile>>
  ELSE IF AlreadyFits(f.w, f.h, c.targetW, c.targetH)
  THEN IF UnderBudget(f, c.maxMB) THEN <<"done", f>> ELSE CompressAlone(c, f)
  ELSE IF BlobFails(s) THEN <<"error", NoFile>>
  ELSE IF CompressAfterCrop(c.maxMB) THEN CompressAlone(c, croppedFile)
  ELSE <<"done", croppedFile>>

\* C10: of two calls of cropImage interleaved at their awaits, each ends as
\* it does when run alone, and every bitmap a call encodes, and every blob
\* it gets, shows its own image: nothing one call wrote is read by the other.
C10_Independent ==
  \A p \in Procs :
    /\ inv[p].req.data.img \in {0, p}
    /\ inv[p].blob.data.img \in {0, p}
    /\ inv[p].pc \in {"done", "error"} =>
         <<inv[p].pc, inv[p].result>> = CropAlone(inv[p])

\* both calls are suspended in the middle of their quality searches, one on
\* its cropped file and one on its source, at different qualities
C10_Witness ==
  /\ \A p \in Procs : inv[p].pc = "c_encode" /\ inv[p].quality < InitialQuality
  /\ inv[1].nCrop = 1 /\ inv[2].nCrop = 0
  /\ inv[1].quality # inv[2].quality
  /\ canvas[CanvasOf(1, "comp")].data # canvas[CanvasOf(2, "comp")].data

\* C11: when a call of the prober's users or of the crop has finished, by
\* return or by rejection, every object URL it created has been revoked.
C11_UrlsReleased ==
  \A p \in Procs :
    (inv[p].op \in {"cropImage", "cropImageSrc", "utilCompressImage"}
       /\ inv[p].pc \in {"done", "error"})
      => inv[p].urls = 0

\* the source is strictly larger than the target on every axis the call
\* constrains (a target left out or 0 constrains nothing)
LargerOnConstrained(r) ==
  /\ Truthy(r.targetW) \/ Truthy(r.targetH)
  /\ Truthy(r.targetW) => r.file.w > r.targetW
  /\ Truthy(r.targetH) => r.file.h > r.targetH

\* the position of a suspended orchestrator call in Start, probe,
\* Cover-Crop (load, encode), compressor (read, decode, encode), Done
OrderOf(pc) ==
  CASE pc = "start" -> 0
    [] pc = "probe" -> 1
    [] pc = "load" -> 2
    [] pc = "encode" -> 3
    [] pc = "c_read" -> 4
    [] pc = "c_decode" -> 5
    [] pc = "c_encode" -> 6
    [] OTHER -> 7

C12_Counts ==
  \A p \in Procs :
    LET r == inv[p] IN
    r.op = "cropImage" =>
      /\ r.nProbe <= 1 /\ r.nCrop <= 1 /\ r.nCompress <= 1
      /\ r.pc \in {"load", "encode"} => r.nProbe = 1 /\ r.nCompress = 0
      /\ ~LargerOnConstrained(r) => r.nCrop = 0
      /\ (LargerOnConstrained(r) /\ r.nCompress = 1) =>
           /\ r.nCrop = 1 /\ Truthy(r.maxMB)
           /\ r.cur.data.stage = "crop" /\ r.cur.data.img = p
      /\ (LargerOnConstrained(r) /\ r.pc = "done") =>
           /\ r.nCrop = 1
           /\ r.nCompress = (IF Truthy(r.maxMB) THEN 1 ELSE 0)
           /\ ~Truthy(r.maxMB) =>
                r.result.data.stage = "crop" /\ r.result.data.img = p

C12_Forward ==
  \A p \in Procs :
    inv[p].op = "cropImage" =>
      \/ inv'[p] = inv[p]
      \/ OrderOf(inv'[p].pc) > OrderOf(inv[p].pc)
      \/ inv[p].pc = "c_encode" /\ inv'[p].pc = "c_encode"
           /\ inv'[p].nCompress = inv[p].nCompress

\* C12: an orchestrator call only moves forward through Start, probe,
\* Cover-Crop, compressor, Done (the compressor's own search is the one
\* place it stays in); a source larger than the target on every constrained
\* axis is cropped exactly once, the compressor is never called before the
\* crop, and it is called, once and on the cropped file, exactly when maxMB
\* is given, the cropped file being returned otherwise.
C12_LinearOrder == []C12_Counts /\ [][C12_Forward]_vars

C12_Witness ==
  \E p \in Procs :
    LET r == inv[p] IN
    /\ r.op = "cropImage" /\ r.pc = "done" /\ LargerOnConstrained(r)
    /\ Truthy(r.maxMB) /\ r.nProbe = 1 /\ r.nCrop = 1 /\ r.nCompress = 1
    /\ r.nEncode >= 3 /\ r.result.data.stage = "crop+"

\* the compressor has returned from a search in which no blob it was handed
\* was within the budget
NoCandidateInBudget(r) ==
  /\ r.op \in CompressorOps /\ r.nCompress = 1 /\ r.pc = "done"
  /\ r.minCand # 0 /\ GtMB(r.minCand, r.maxMB)

IsPixelCount(t) == t.d > 0 /\ t.n % t.d = 0 /\ t.n >= t.d

\* C14: when the orchestrator crops with exactly one target axis given, the
\* target it resolves for the missing axis, and so both targets it uses for
\* the crop window and the output canvas, are whole numbers of at least 1.
C14_ResolvedIntegers ==
  \A p \in Procs :
    LET r == inv[p] IN
    (/\ r.op = "cropImage" /\ r.nCrop = 1
     /\ Truthy(r.targetW) # Truthy(r.targetH)
     /\ r.file.w >= 1 /\ r.file.h >= 1)
      => IsPixelCount(r.resW) /\ IsPixelCount(r.resH)

\* the media type the spec gives the crop's output for a source type
ExpectedCropType(type) ==
  IF type \in {"", "image/svg+xml"} THEN "image/png" ELSE type

\* C15: the crop encodes at the source's media type, at image/png for an
\* SVG or untyped source, with quality 0.9 exactly when that type is
\* image/jpeg; the cropped file carries that type, and with no byte budget
\* it is what the call returns.
C15_CropType ==
  \A p \in Procs :
    LET r == inv[p]
        t == ExpectedCropType(r.file.type) IN
    (r.op \in {"cropImage", "cropImageSrc"} /\ r.nCrop = 1) =>
      /\ r.pc = "encode" =>
           /\ r.req.type = t
           /\ r.req.q = CropJpegQuality <=> t = "image/jpeg"
           /\ t # "image/jpeg" => r.req.q = Undef
      /\ r.nCompress = 1 => r.cur.type = t
      /\ (r.pc = "done" /\ ~Truthy(r.maxMB)) =>
           /\ r.result.type = t
           /\ r.result.data.type = t
           /\ r.result.data.q = (IF t = "image/jpeg" THEN CropJpegQuality ELSE Undef)

\* an SVG source larger than the target was cropped with no budget and came
\* back as a PNG
C15_Witness ==
  \E p \in Procs :
    LET r == inv[p] IN
    /\ r.op = "cropImage" /\ r.pc = "done" /\ r.nCrop = 1
    /\ r.maxMB = Undef /\ r.file.type = "image/svg+xml"
    /\ r.file.w > r.targetW /\ r.file.h > r.targetH
    /\ Truthy(r.targetW) /\ Truthy(r.targetH)
    /\ r.result.type = "image/png" /\ r.result.data.q = Undef

\* a JPEG source was cropped with no budget and came back a JPEG encoded at
\* quality 0.9
C15_WitnessJpeg ==
  \E p \in Procs :
    LET r == inv[p] IN
    /\ r.op = "cropImageSrc" /\ r.pc = "done" /\ r.nCrop = 1
    /\ ~Truthy(r.maxMB) /\ r.file.type = "image/jpeg"
    /\ r.result.type = "image/jpeg" /\ r.result.data.q = CropJpegQuality

====
